---- MODULE Spec2Model ----
(***************************************************************************)
(* Transport layer of ttrpc-rust (sync): the Listener / Connection pair of *)
(* the polling backend (src/src/net.rs, Unix socket + poll) and of the     *)
(* completion backend (src/src/sync/sys/windows/net.rs, named pipe +       *)
(* overlapped I/O).  The backend is a build-time choice: Init draws it.    *)
(*                                                                         *)
(* Threads: one accept thread (pc), the thread that requests shutdown     *)
(* (SetQuit, ListenerClose), one worker per accepted Connection            *)
(* (ConnClose, ConnShutdown) and the client processes (ClientConnect).     *)
(* The operating system is the environment: its descriptor table (fds),   *)
(* the listen backlog and the outcome of every system call are drawn from  *)
(* the outcomes that call can produce in the current state.                *)
(***************************************************************************)
EXTENDS Integers, Sequences, FiniteSets, TLC

\* ------------------------------------------------------------------ bounds
MaxFd == 5          \* slots of the server process's descriptor/handle table
MaxClients == 2     \* client connects over a run
MaxCloses == 2      \* close() calls over a run, on the Listener and on Connections
MaxBytes == 2       \* bytes each side writes over a run
MaxBuf == 2         \* longest buffer handed to read() or write()
MaxAttempts == 3    \* system calls inside one read() or write()

VARIABLES
    backend,        \* "poll" (net.rs) or "comp" (windows/net.rs)
    addrOk,         \* the address handed to Listener::new names an endpoint that can be created
    listener,       \* what Listener::new returned: "built" (Ok) or "failed" (Err)
    inst,           \* history: the pipe instances CreateNamedPipeW has created
    owner,          \* OS: slot -> the client whose connection the endpoint there carries (0: none)
    quit,           \* QuitFlag, the Arc<AtomicBool> handed to accept()
    fds,            \* descriptor/handle table: slot -> kind of the open object
    mon,            \* LinuxListener.monitor_fd = <<read side, write side>>
    first_instance, \* PipeListener.first_instance
    backlog,        \* poll: clients queued on the listening socket
    connects,       \* client connects attempted so far
    pc,             \* accept thread: where it is inside accept()
    result,         \* what the last accept() returned
    np,             \* comp: accept()'s local `np`, the pipe instance handle
    npClient,       \* comp: a client has opened the instance `np`
    conns,          \* the Connection values accept() has returned
    lcloses,        \* Listener close() calls so far
    panicked,       \* panic sites hit so far
    h,              \* history of the current accept() call
    qpc,            \* history: "wait" when QuitFlag was raised with accept() blocked in its wait
    okAfterQuit,    \* history: accept() calls that returned a Connection with QuitFlag raised
    io,             \* the read()/write() call in progress on conns[1], or the last one
    stream,         \* bytes the peer wrote that no read() has returned yet
    peer,           \* the peer's end: "open", "closed", or "disconnected" by shutdown()
    sent,           \* bytes the peer has written so far
    got,            \* history: bytes read() calls have returned, in order
    wrote,          \* history: bytes write() calls have reported as written
    taken,          \* OS: bytes the system has taken from write() buffers for the peer
    rd,             \* the reader thread's read() on conns[1], with a write() in flight
    wr,             \* the writer thread's write() on conns[1], with a read() in flight
    ops,            \* OS: the overlapped read and the overlapped write on the pipe
    sig             \* OS: the handles of conns[1] that are in the signaled state

lvars == <<backend, addrOk, listener, inst, owner,
           quit, fds, mon, first_instance, backlog, connects, pc, result,
           np, npClient, conns, lcloses, panicked, h, qpc, okAfterQuit>>
iovars == <<io, stream, peer, sent, got, wrote, taken>>
dvars == <<rd, wr, ops, sig>>
vars == <<lvars, iovars, dvars>>

\* ------------------------------------------------------------ OS constants
POLLIN == 1
POLLHUP == 16
NoHandle == 0       \* NULL handle / no descriptor

Slots == 1..MaxFd

\* ----------------------------------------------------------------- values
Res(kind, v) == [kind |-> kind, v |-> v]
NoResult == Res("none", "")
ErrShutdown == Res("Err", "listener shutdown for quit flag")
OkNone == Res("OkNone", "")
OkSome(i) == Res("OkSome", i)
Ok(n) == Res("Ok", n)
Err(e) == Res("Err", e)

NoIo == [op |-> "none", pc |-> "idle", len |-> 0, att |-> <<>>, eof |-> FALSE,
         afterClose |-> FALSE, res |-> NoResult]

\* A thread outside read() / write(), and no overlapped operation started.
NoCall == [pc |-> "idle", res |-> NoResult, waited |-> FALSE, own |-> FALSE]
NoOps == [read |-> "none", write |-> "none"]

NoHist == [entryQuit |-> FALSE, polled |-> FALSE, ret |-> 0, err |-> "", rev0 |-> 0,
           rev1 |-> 0, rechecked |-> FALSE, quitAtRecheck |-> FALSE, created |-> FALSE,
           co |-> "", waited |-> FALSE, waitOk |-> FALSE, took |-> FALSE,
           afterIntr |-> FALSE, afterClose |-> FALSE]

\* -------------------------------------------------- descriptor table (OS)
FreeSlots(f) == {s \in Slots : f[s] = "free"}

\* Variant: the number handed out is not checked to be free.
MutLowestFree(f) == CHOOSE s \in Slots : \A t \in Slots : s >= t
\* POSIX hands out the lowest free descriptor number.
LowestFree(f) == CHOOSE s \in FreeSlots(f) : \A t \in FreeSlots(f) : s <= t

\* The slot an allocation returns.  POSIX specifies the lowest free number;
\* Windows recycles freed handle values, taken here in the same order.
AllocSlots(f) == IF FreeSlots(f) = {} THEN {} ELSE {LowestFree(f)}

\* close(fd) / CloseHandle(h): succeeds on whatever object the number names now.
CanClose(f, s) == s \in Slots /\ f[s] # "free"
\* Variant: the close leaves the object open.
MutRelease(f, s) == f
Release(f, s) == [f EXCEPT ![s] = "free"]

\* The wake channel's write side is still open somewhere.
WakeOpen == \E s \in Slots : fds[s] = "wake_w"

Conn(handle, re, we, c) == [h |-> handle, re |-> re, we |-> we, closes |-> 0, client |-> c]

\* Closing an endpoint ends the connection it carried.
Unbind(o, f) == [s \in Slots |-> IF f[s] \in {"conn", "pipe"} THEN o[s] ELSE 0]

RECURSIVE SumCloses(_)
SumCloses(cs) == IF cs = <<>> THEN 0 ELSE Head(cs).closes + SumCloses(Tail(cs))

\* close() calls made so far, on the Listener and on every Connection.
CloseCalls == lcloses + SumCloses(conns)

NoInst == [made |-> FALSE, firstExcl |-> FALSE, laterExcl |-> FALSE]

\* ------------------------------------------------------------------- Init
\* Listener::new(sockaddr).  LinuxListener::new: `do_bind(sockaddr)?`, which
\* fails when the socket cannot be bound to the address, then do_listen and
\* pipe2.  PipeListener::new stores the address and returns Ok: nothing is
\* created before accept().
ListenerNew(b, ok) == IF b = "poll" /\ ~ok THEN "failed" ELSE "built"

\* The state once Listener::new has returned.  LinuxListener::new: socket,
\* then pipe2 -> (read, write); PipeListener::new opens nothing.
Init ==
    /\ backend \in {"poll", "comp"}
    /\ addrOk \in BOOLEAN
    /\ listener = ListenerNew(backend, addrOk)
    /\ inst = NoInst
    /\ owner = [s \in Slots |-> 0]
    /\ quit = FALSE
    /\ fds = [s \in Slots |->
                IF backend = "poll" /\ listener = "built"
                THEN (IF s = 1 THEN "listen" ELSE IF s = 2 THEN "wake_r"
                      ELSE IF s = 3 THEN "wake_w" ELSE "free")
                ELSE "free"]
    /\ mon = IF backend = "poll" /\ listener = "built" THEN <<2, 3>>
             ELSE <<NoHandle, NoHandle>>
    /\ first_instance = TRUE
    /\ backlog = 0
    /\ connects = 0
    /\ pc = "idle"
    /\ result = NoResult
    /\ np = NoHandle
    /\ npClient = FALSE
    /\ conns = <<>>
    /\ lcloses = 0
    /\ panicked = {}
    /\ h = NoHist
    /\ qpc = "none"
    /\ okAfterQuit = 0
    /\ io = NoIo
    /\ stream = <<>>
    /\ peer = "open"
    /\ sent = 0
    /\ got = <<>>
    /\ wrote = 0
    /\ taken = 0
    /\ rd = NoCall
    /\ wr = NoCall
    /\ ops = NoOps
    /\ sig = {}

\* ------------------------------------------------------------ environment
\* The server's shutdown raises QuitFlag (false -> true, once).
SetQuit ==
    /\ ~quit
    /\ quit' = TRUE
    /\ qpc' = IF pc \in {"poll", "connwait"} THEN "wait" ELSE "other"
    /\ UNCHANGED <<backend, addrOk, listener, inst, owner,
                   fds, mon, first_instance, backlog, connects, pc, result,
                   np, npClient, conns, lcloses, panicked, h, okAfterQuit>>
    /\ UNCHANGED iovars
    /\ UNCHANGED dvars

\* A listening, not yet connected pipe instance exists.
InstanceListening == pc \in {"connect", "connwait"} /\ ~npClient /\ np \in Slots /\ fds[np] = "pipe"

\* A client connects: queued on the listening socket (poll); opens the pipe
\* (comp, ClientConnection::get_pipe_connection), where a failed open is
\* unwrapped.
ClientConnect ==
    /\ connects < MaxClients
    /\ connects' = connects + 1
    /\ IF backend = "poll"
       THEN /\ backlog' = IF listener = "built" THEN backlog + 1 ELSE backlog
            /\ UNCHANGED <<npClient, panicked, owner>>
       ELSE /\ UNCHANGED backlog
            /\ IF InstanceListening
               THEN /\ npClient' = TRUE
                    /\ owner' = [owner EXCEPT ![np] = connects + 1]
                    /\ UNCHANGED panicked
               ELSE /\ panicked' = panicked \cup {"get_pipe_connection"}
                    /\ UNCHANGED <<npClient, owner>>
    /\ UNCHANGED <<backend, addrOk, listener, inst, quit, fds, mon, first_instance, pc,
                   result, np, conns, lcloses, h, qpc, okAfterQuit>>
    /\ UNCHANGED iovars
    /\ UNCHANGED dvars

\* --------------------------------------------------------------- accept()
\* `if quitFlag.load(SeqCst) { return Err(..) }` at the head of both accept()s.
\* Variant: no QuitFlag load at entry.
MutQuitAtEntry(q) == FALSE
QuitAtEntry(q) == q

\* accept() is called; its first statement loads QuitFlag.
AcceptEntry ==
    /\ listener = "built"
    /\ pc \in {"idle", "done", "panicked"}
    /\ IF QuitAtEntry(quit)
       THEN /\ pc' = "done"
            /\ result' = ErrShutdown
       ELSE /\ pc' = IF backend = "poll" THEN "poll" ELSE "newinst"
            /\ result' = NoResult
    /\ h' = [NoHist EXCEPT !.entryQuit = quit,
                           !.afterIntr = (h.polled /\ h.ret = -1 /\ h.err = "EINTR"),
                           !.afterClose = (backend = "poll" /\ ~WakeOpen)]
    /\ np' = NoHandle
    /\ npClient' = FALSE
    /\ UNCHANGED <<backend, addrOk, listener, inst, owner,
                   quit, fds, mon, first_instance, backlog, connects, conns,
                   lcloses, panicked, qpc, okAfterQuit>>
    /\ UNCHANGED iovars
    /\ UNCHANGED dvars

\* What poll() can report: -1 with EINTR or another errno, 0, or the number of
\* descriptors with events, the wake channel's read side reporting POLLHUP once
\* its write side is closed and the listening socket POLLIN while a client is
\* queued.
PollOutcomes ==
    LET r0 == IF WakeOpen THEN 0 ELSE POLLHUP
        r1 == IF backlog > 0 THEN POLLIN ELSE 0
        n  == (IF r0 # 0 THEN 1 ELSE 0) + (IF r1 # 0 THEN 1 ELSE 0)
    IN  {[ret |-> -1, err |-> "EINTR", r0 |-> 0, r1 |-> 0],
         [ret |-> -1, err |-> "ENOMEM", r0 |-> 0, r1 |-> 0],
         [ret |-> 0, err |-> "", r0 |-> 0, r1 |-> 0]}
        \cup (IF n >= 1 THEN {[ret |-> n, err |-> "", r0 |-> r0, r1 |-> r1]} ELSE {})

\* Variant of AfterPoll: a failed poll() is not reported, the call returns
\* Ok(None).
MutAfterPoll(o) ==
    IF o.ret < 1 THEN Res("OkNone", "")
    ELSE IF o.r0 # 0 \/ o.r1 = 0 THEN Res("OkNone", "")
    ELSE Res("none", "")

\* Variant: every wait is taken for a wake-up.
MutAlwaysWake(r0, r1) == TRUE
\* `pollers[0].revents != 0 || pollers[len - 1].revents == 0`
\* Variant: the wake channel's revents are not looked at.
MutWakeOrNotListen(r0, r1) == r1 = 0
WakeOrNotListen(r0, r1) == r0 # 0 \/ r1 = 0

\* The code between poll() and the second QuitFlag load: the result to return,
\* or NoResult to go on.
AfterPoll(o) ==
    IF o.ret = -1 THEN Res("Err", o.err)
    ELSE IF o.ret < 1 THEN OkNone
    ELSE IF WakeOrNotListen(o.r0, o.r1) THEN OkNone
    ELSE NoResult

\* poll() returns outcome o.
PollStep(o) ==
    /\ pc = "poll"
    /\ h' = [h EXCEPT !.polled = TRUE, !.ret = o.ret, !.err = o.err, !.rev0 = o.r0,
                      !.rev1 = o.r1]
    /\ IF AfterPoll(o) = NoResult
       THEN pc' = "recheck" /\ UNCHANGED result
       ELSE pc' = "done" /\ result' = AfterPoll(o)
    /\ UNCHANGED <<backend, addrOk, listener, inst, owner,
                   quit, fds, mon, first_instance, backlog, connects, np,
                   npClient, conns, lcloses, panicked, qpc, okAfterQuit>>
    /\ UNCHANGED iovars
    /\ UNCHANGED dvars

PollReturn == \E o \in PollOutcomes : PollStep(o)

\* poll() returns because a polled descriptor has an event.
PollReady == \E o \in PollOutcomes : o.ret >= 1 /\ PollStep(o)

\* The second `if quitFlag.load(SeqCst)` of the polling accept().
\* Variant: no QuitFlag load after the wait.
MutQuitAtRecheck(q) == FALSE
QuitAtRecheck(q) == q

Recheck ==
    /\ pc = "recheck"
    /\ h' = [h EXCEPT !.rechecked = TRUE, !.quitAtRecheck = quit]
    /\ IF QuitAtRecheck(quit)
       THEN pc' = "done" /\ result' = ErrShutdown
       ELSE pc' = "accept4" /\ UNCHANGED result
    /\ UNCHANGED <<backend, addrOk, listener, inst, owner,
                   quit, fds, mon, first_instance, backlog, connects, np,
                   npClient, conns, lcloses, panicked, qpc, okAfterQuit>>
    /\ UNCHANGED iovars
    /\ UNCHANGED dvars

\* accept4(self.fd, SOCK_CLOEXEC): a new descriptor for the first queued client,
\* or an errno (the only outcome when the table is full).
Accept4 ==
    /\ pc = "accept4"
    /\ backlog > 0
    /\ pc' = "done"
    /\ \/ /\ FreeSlots(fds) # {}
          /\ LET fd == LowestFree(fds)
                 c  == connects - backlog + 1
             IN /\ fds' = [fds EXCEPT ![fd] = "conn"]
                /\ owner' = [owner EXCEPT ![fd] = c]
                /\ conns' = Append(conns, Conn(fd, NoHandle, NoHandle, c))
                /\ result' = OkSome(Len(conns) + 1)
          /\ backlog' = backlog - 1
          /\ h' = [h EXCEPT !.took = TRUE]
          /\ okAfterQuit' = okAfterQuit + (IF quit THEN 1 ELSE 0)
       \/ /\ result' = Res("Err", "errno")
          /\ UNCHANGED <<fds, owner, conns, backlog, h, okAfterQuit>>
    /\ UNCHANGED <<backend, addrOk, listener, inst, quit, mon, first_instance, connects,
                   np, npClient, lcloses, panicked, qpc>>
    /\ UNCHANGED iovars
    /\ UNCHANGED dvars

\* Close for LinuxListener: close(self.monitor_fd.1), a failure only logged;
\* PipeListener::close does nothing.
ListenerClose ==
    /\ listener = "built"
    /\ CloseCalls < MaxCloses
    /\ lcloses' = lcloses + 1
    /\ IF backend = "poll" /\ CanClose(fds, mon[2])
       THEN fds' = Release(fds, mon[2])
       ELSE UNCHANGED fds
    /\ owner' = Unbind(owner, fds')
    /\ UNCHANGED <<backend, addrOk, listener, inst, quit, mon, first_instance, backlog,
                   connects, pc, result, np, npClient, conns, panicked, h, qpc,
                   okAfterQuit>>
    /\ UNCHANGED iovars
    /\ UNCHANGED dvars

\* ------------------------------------------------ accept(), completion backend
\* PipeListener::new_instance: FILE_FLAG_FIRST_PIPE_INSTANCE is requested when
\* the first-instance flag is set, and the flag is cleared before
\* CreateNamedPipeW is called; the call returns a new handle, or
\* INVALID_HANDLE_VALUE (always, for a name that is not a pipe name).  accept()
\* unwraps the result.
NewInstance ==
    /\ pc = "newinst"
    /\ first_instance' = FALSE
    /\ \/ /\ addrOk
          /\ \E s \in AllocSlots(fds) :
               /\ fds' = [fds EXCEPT ![s] = "pipe"]
               /\ np' = s
          /\ pc' = "connect"
          /\ h' = [h EXCEPT !.created = TRUE]
          /\ inst' = IF inst.made
                     THEN [inst EXCEPT !.laterExcl = @ \/ first_instance]
                     ELSE [inst EXCEPT !.made = TRUE, !.firstExcl = first_instance]
          /\ UNCHANGED <<panicked, result>>
       \/ /\ pc' = "panicked"
          /\ panicked' = panicked \cup {"accept_new_instance"}
          /\ result' = Res("panic", "new_instance().unwrap()")
          /\ UNCHANGED <<fds, np, h, inst>>
    /\ UNCHANGED <<backend, addrOk, listener, owner, quit, mon, backlog, connects,
                   npClient, conns, lcloses, qpc, okAfterQuit>>
    /\ UNCHANGED iovars
    /\ UNCHANGED dvars

\* PipeConnection::new(h): two CreateEventW calls, their results stored
\* unchecked (NULL when the call fails).
NewEvents(f) ==
    IF FreeSlots(f) = {} THEN {<<NoHandle, NoHandle, f>>}
    ELSE UNION {
           LET f1 == [f EXCEPT ![re] = "event"]
           IN  IF FreeSlots(f1) = {} THEN {<<re, NoHandle, f1>>}
               ELSE {<<re, we, [f1 EXCEPT ![we] = "event"]>> : we \in AllocSlots(f1)}
           : re \in AllocSlots(f)}

\* `Ok(Some(PipeConnection::new(np)))`
WrapPipe ==
    \E ev \in NewEvents(fds) :
        /\ fds' = ev[3]
        /\ conns' = Append(conns, Conn(np, ev[1], ev[2], owner[np]))
        /\ result' = OkSome(Len(conns) + 1)
        /\ okAfterQuit' = okAfterQuit + (IF quit THEN 1 ELSE 0)

\* What ConnectNamedPipe can report on an overlapped instance: nonzero
\* (connected), or zero with ERROR_IO_PENDING, ERROR_PIPE_CONNECTED or another
\* error.
ConnectOutcomes ==
    {"error"} \cup (IF npClient THEN {"nonzero", "pipe_connected"} ELSE {"io_pending"})

\* ConnectNamedPipe(np, ol) and the match on the last error.
ConnectPipe ==
    /\ pc = "connect"
    /\ \E o \in ConnectOutcomes :
         CASE o = "nonzero" ->
                /\ pc' = "done"
                /\ result' = Res("Err", "last_os_error")
                /\ h' = [h EXCEPT !.co = o]
                /\ UNCHANGED <<fds, conns, okAfterQuit>>
           [] o = "io_pending" ->
                /\ pc' = "connwait"
                /\ h' = [h EXCEPT !.co = o, !.waited = TRUE]
                /\ UNCHANGED <<fds, conns, okAfterQuit, result>>
           [] o = "pipe_connected" ->
                /\ pc' = "done"
                /\ WrapPipe
                /\ h' = [h EXCEPT !.co = o, !.took = TRUE]
           [] OTHER ->
                /\ pc' = "done"
                /\ result' = Res("Err", "failed to connect pipe")
                /\ h' = [h EXCEPT !.co = o]
                /\ UNCHANGED <<fds, conns, okAfterQuit>>
    /\ UNCHANGED <<backend, addrOk, listener, inst, owner, quit, mon, first_instance,
                   backlog, connects, np, npClient, lcloses, panicked, qpc>>
    /\ UNCHANGED iovars
    /\ UNCHANGED dvars

\* GetOverlappedResult(np, ol, .., WAIT_FOR_EVENT) returns once the connect
\* completed: zero on failure, else the instance is wrapped and returned.
ConnWait ==
    /\ pc = "connwait"
    /\ npClient
    /\ pc' = "done"
    /\ \/ /\ result' = Res("Err", "last_os_error")
          /\ UNCHANGED <<fds, conns, okAfterQuit, h>>
       \/ /\ WrapPipe
          /\ h' = [h EXCEPT !.waitOk = TRUE, !.took = TRUE]
    /\ UNCHANGED <<backend, addrOk, listener, inst, owner,
                   quit, mon, first_instance, backlog, connects, np, npClient,
                   lcloses, panicked, qpc>>
    /\ UNCHANGED iovars
    /\ UNCHANGED dvars

\* ------------------------------------------------------ Connection close()
\* close_handle(h): CloseHandle, zero turned into Err.
\* PipeConnection::close: `close_handle(named_pipe)?; close_handle(read_event)?;
\* close_handle(write_event)`: the table after it and whether it returned Ok.
PipeClose(f, c) ==
    IF ~CanClose(f, c.h) THEN <<f, "Err">>
    ELSE LET f1 == Release(f, c.h)
         IN  IF ~CanClose(f1, c.re) THEN <<f1, "Err">>
             ELSE LET f2 == Release(f1, c.re)
                  IN  IF ~CanClose(f2, c.we) THEN <<f2, "Err">>
                      ELSE <<Release(f2, c.we), "Ok">>

\* A worker calls close() on its Connection.  Close for LinuxConnection is
\* `unimplemented!()`: the calling worker panics.
ConnClose(i) ==
    /\ CloseCalls < MaxCloses
    /\ IF backend = "poll"
       THEN /\ conns[i].closes = 0
            /\ panicked' = panicked \cup {"LinuxConnection::close"}
            /\ UNCHANGED fds
       ELSE /\ fds' = PipeClose(fds, conns[i])[1]
            /\ UNCHANGED panicked
    /\ owner' = Unbind(owner, fds')
    /\ conns' = [conns EXCEPT ![i].closes = @ + 1]
    /\ UNCHANGED <<backend, addrOk, listener, inst, quit, mon, first_instance, backlog,
                   connects, pc, result, np, npClient, lcloses, h, qpc, okAfterQuit>>
    /\ UNCHANGED iovars
    /\ UNCHANGED dvars

Next ==
    \/ SetQuit
    \/ ClientConnect
    \/ AcceptEntry
    \/ PollReturn
    \/ Recheck
    \/ Accept4
    \/ NewInstance
    \/ ConnectPipe
    \/ ConnWait
    \/ ListenerClose
    \/ \E i \in 1..Len(conns) : ConnClose(i)

Spec == Init /\ [][Next]_vars

\* The polling backend alone: a LinuxListener, its accept() and the closes.
PollInit == Init /\ backend = "poll"

PollNext ==
    \/ SetQuit
    \/ ClientConnect
    \/ AcceptEntry
    \/ PollReturn
    \/ Recheck
    \/ Accept4
    \/ ListenerClose
    \/ \E i \in 1..Len(conns) : ConnClose(i)

\* The accept thread keeps running and its caller keeps looping on accept();
\* poll() returns once a polled descriptor has an event.
FairSpec ==
    /\ PollInit /\ [][PollNext]_vars
    /\ WF_vars(AcceptEntry)
    /\ WF_vars(PollReady)
    /\ WF_vars(Recheck)
    /\ WF_vars(Accept4)

\* ============================================== Connection read() / write()
\* A Connection built by LinuxConnection::new(fd) / PipeConnection::new(h),
\* its peer connected and nothing written yet.
IOInit ==
    /\ backend \in {"poll", "comp"}
    /\ addrOk = TRUE
    /\ listener = "built"
    /\ inst = NoInst
    /\ owner = [s \in Slots |-> IF s = 1 THEN 1 ELSE 0]
    /\ quit = FALSE
    /\ fds = [s \in Slots |->
                IF backend = "poll" THEN (IF s = 1 THEN "conn" ELSE "free")
                ELSE (IF s = 1 THEN "pipe" ELSE IF s \in {2, 3} THEN "event" ELSE "free")]
    /\ mon = <<NoHandle, NoHandle>>
    /\ first_instance = TRUE
    /\ backlog = 0
    /\ connects = 0
    /\ pc = "idle"
    /\ result = NoResult
    /\ np = NoHandle
    /\ npClient = FALSE
    /\ conns = <<IF backend = "poll" THEN Conn(1, NoHandle, NoHandle, 1)
                 ELSE Conn(1, 2, 3, 1)>>
    /\ lcloses = 0
    /\ panicked = {}
    /\ h = NoHist
    /\ qpc = "none"
    /\ okAfterQuit = 0
    /\ io = NoIo
    /\ stream = <<>>
    /\ peer = "open"
    /\ sent = 0
    /\ got = <<>>
    /\ wrote = 0
    /\ taken = 0
    /\ rd = NoCall
    /\ wr = NoCall
    /\ ops = NoOps
    /\ sig = {}

\* close() has returned Ok on the Connection (PipeConnection::close; Close for
\* LinuxConnection never returns).
Closed == backend = "comp" /\ conns[1].closes >= 1

\* The Connection's descriptor / pipe handle names an open endpoint.
HandleOpen == CanClose(fds, conns[1].h)

\* The peer writes one more byte to the open connection; byte k of its stream
\* has value k.
ClientWrite ==
    /\ peer = "open" /\ HandleOpen
    /\ sent < MaxBytes
    /\ sent' = sent + 1
    /\ stream' = Append(stream, sent + 1)
    /\ UNCHANGED <<io, peer, got, wrote, taken>>
    /\ UNCHANGED lvars
    /\ UNCHANGED dvars

\* The peer closes its end.
ClientClose ==
    /\ peer = "open"
    /\ peer' = "closed"
    /\ UNCHANGED <<io, stream, sent, got, wrote, taken>>
    /\ UNCHANGED lvars
    /\ UNCHANGED dvars

\* The worker calls read(buf) with a buffer of len bytes.
ReadCall ==
    /\ io.pc \in {"idle", "done"}
    /\ \E len \in 0..MaxBuf :
         io' = [NoIo EXCEPT !.op = "read", !.pc = "try", !.len = len,
                            !.afterClose = Closed]
    /\ UNCHANGED <<stream, peer, sent, got, wrote, taken>>
    /\ UNCHANGED lvars
    /\ UNCHANGED dvars

\* The worker calls write(buf) with a buffer of len bytes.
WriteCall ==
    /\ io.pc \in {"idle", "done"}
    /\ \E len \in 0..MaxBuf :
         /\ taken + len <= MaxBytes
         /\ io' = [NoIo EXCEPT !.op = "write", !.pc = "try", !.len = len,
                               !.afterClose = Closed]
    /\ UNCHANGED <<stream, peer, sent, got, wrote, taken>>
    /\ UNCHANGED lvars
    /\ UNCHANGED dvars

Min(a, b) == IF a <= b THEN a ELSE b

\* The peer has closed and every byte it wrote has been read.
AtEof == stream = <<>> /\ peer = "closed"

\* The bytes a read() hands to its caller: the first r.v bytes of the buffer
\* the system call filled, when the call returns Ok(r.v).
Returned(filled, r) ==
    IF r.kind = "Ok" THEN SubSeq(filled, 1, Min(r.v, Len(filled))) ELSE <<>>

\* The count a write() reports to its caller.
Reported(r) == IF r.kind = "Ok" THEN r.v ELSE 0

\* The errnos the kernel reports for a condition that passes.
EnvTransient == {"EINTR", "EAGAIN"}

\* What recv(fd, buf, 0) can return: the bytes queued, up to len; 0 at end of
\* stream or for an empty buffer; EAGAIN with nothing queued (a descriptor
\* that does not block); EINTR; another errno.  With nothing queued and the
\* peer open a blocking recv does not return.
RecvOutcomes(len) ==
    (IF len = 0 THEN {Ok(0)}
     ELSE IF stream # <<>> THEN {Ok(Min(len, Len(stream)))}
     ELSE IF peer = "closed" THEN {Ok(0)}
     ELSE {Err("EAGAIN")})
    \cup {Err("EINTR"), Err("ECONNRESET")}

\* What send(fd, buf, 0) can return: the bytes taken, EPIPE once the peer is
\* gone, EAGAIN, EINTR, another errno.
SendOutcomes(len) ==
    (IF peer = "open"
     THEN {Ok(n) : n \in (IF len = 0 THEN {0} ELSE 1..len)} \cup {Err("EAGAIN")}
     ELSE {Err("EPIPE")})
    \cup {Err("EINTR"), Err("ECONNRESET")}

\* fn retryable(e): `e == Error::EINTR || e == Error::EAGAIN`
\* Variant: EAGAIN is not retried.
Mutretryable(e) == e = "EINTR"
retryable(e) == e = "EINTR" \/ e = "EAGAIN"

\* Variant of LoopPass: the count the system call returned is not passed on.
MutLoopPass(o) ==
    IF o.kind = "Ok" THEN Res("Ok", 0)
    ELSE IF o.v \in {"EINTR", "EAGAIN"} THEN Res("none", "")
    ELSE o

\* One pass of the loop of read() and of write(): the value returned for the
\* system call's outcome o, or NoResult to go round again.
LoopPass(o) ==
    IF o.kind = "Ok" THEN o
    ELSE IF retryable(o.v) THEN NoResult
    ELSE o

\* The model stops drawing passing errnos at the last attempt it follows.
WithinAttempts(o) ==
    (o.kind = "Err" /\ o.v \in EnvTransient) => Len(io.att) + 1 < MaxAttempts

\* Read for LinuxConnection: one recv and the match on its result.
RecvAttempt ==
    /\ backend = "poll" /\ io.op = "read" /\ io.pc = "try"
    /\ \E o \in RecvOutcomes(io.len) :
         /\ WithinAttempts(o)
         /\ io' = [io EXCEPT !.att = Append(@, o),
                             !.eof = (AtEof /\ io.len > 0 /\ o = Ok(0)),
                             !.pc = IF LoopPass(o) = NoResult THEN "try" ELSE "done",
                             !.res = LoopPass(o)]
         /\ IF o.kind = "Ok"
            THEN /\ stream' = SubSeq(stream, o.v + 1, Len(stream))
                 /\ got' = got \o Returned(SubSeq(stream, 1, o.v), LoopPass(o))
            ELSE UNCHANGED <<stream, got>>
    /\ UNCHANGED <<peer, sent, wrote, taken>>
    /\ UNCHANGED lvars
    /\ UNCHANGED dvars

\* Write for LinuxConnection: one send and the match on its result.
SendAttempt ==
    /\ backend = "poll" /\ io.op = "write" /\ io.pc = "try"
    /\ \E o \in SendOutcomes(io.len) :
         /\ WithinAttempts(o)
         /\ io' = [io EXCEPT !.att = Append(@, o),
                             !.pc = IF LoopPass(o) = NoResult THEN "try" ELSE "done",
                             !.res = LoopPass(o)]
         /\ taken' = taken + (IF o.kind = "Ok" THEN o.v ELSE 0)
         /\ wrote' = wrote + Reported(LoopPass(o))
    /\ UNCHANGED <<stream, peer, sent, got>>
    /\ UNCHANGED lvars
    /\ UNCHANGED dvars

\* ------------------------------------------------ completion backend I/O
\* What an overlapped ReadFile / WriteFile reports: the BOOL result, the byte
\* count stored at once, and the thread's last error, which a successful call
\* leaves as it was.
Sys(r, n, e) == [result |-> r, bytes |-> n, lasterr |-> e]

StaleErrors == {"ERROR_IO_PENDING", "ERROR_STALE"}

ReadFileOutcomes(len) ==
    IF ~HandleOpen THEN {Sys(0, 0, "ERROR_INVALID_HANDLE")}
    ELSE IF peer = "disconnected" THEN {Sys(0, 0, "ERROR_PIPE_NOT_CONNECTED")}
    ELSE (IF len = 0 THEN {Sys(1, 0, e) : e \in StaleErrors}
          ELSE IF stream # <<>>
               THEN {Sys(1, Min(len, Len(stream)), e) : e \in StaleErrors}
                    \cup {Sys(0, 0, "ERROR_IO_PENDING")}
          ELSE IF peer = "closed" THEN {Sys(0, 0, "ERROR_BROKEN_PIPE")}
          ELSE {Sys(0, 0, "ERROR_IO_PENDING")})
         \cup {Sys(0, 0, "ERROR_INVALID_HANDLE")}

WriteFileOutcomes(len) ==
    IF ~HandleOpen THEN {Sys(0, 0, "ERROR_INVALID_HANDLE")}
    ELSE IF peer # "open" THEN {Sys(0, 0, "ERROR_NO_DATA")}
    ELSE {Sys(1, len, e) : e \in StaleErrors}
         \cup {Sys(0, 0, "ERROR_IO_PENDING"), Sys(0, 0, "ERROR_INVALID_HANDLE")}

\* The code after ReadFile / WriteFile: return the count stored at once,
\* wait for the pending operation (NoResult), or fail on the last error.
AfterOverlapped(o, what) ==
    IF o.result > 0 /\ o.bytes > 0 THEN Ok(o.bytes)
    ELSE IF o.lasterr = "ERROR_IO_PENDING" THEN NoResult
    ELSE Err(what)

\* PipeConnection::read up to the wait.
ReadFile ==
    /\ backend = "comp" /\ io.op = "read" /\ io.pc = "try"
    /\ \E o \in ReadFileOutcomes(io.len) :
         LET r == AfterOverlapped(o, "failed to read from pipe")
             n == IF o.result > 0 THEN o.bytes ELSE 0
         IN  /\ io' = [io EXCEPT !.att = Append(@, Res("sys", o.result)),
                                 !.eof = (AtEof /\ io.len > 0 /\ o.lasterr = "ERROR_BROKEN_PIPE"),
                                 !.pc = IF r = NoResult
                                        THEN (IF o.result > 0 THEN "waitdone" ELSE "wait")
                                        ELSE "done",
                                 !.res = r]
             /\ stream' = SubSeq(stream, n + 1, Len(stream))
             /\ got' = got \o Returned(SubSeq(stream, 1, n), r)
    /\ UNCHANGED <<peer, sent, wrote, taken>>
    /\ UNCHANGED lvars
    /\ UNCHANGED dvars

\* GetOverlappedResult(.., WAIT_FOR_EVENT) of a read: returns once the
\* operation finished, with the bytes transferred, or zero when it failed.
ReadWait ==
    /\ backend = "comp" /\ io.op = "read" /\ io.pc \in {"wait", "waitdone"}
    /\ \/ /\ io.pc = "waitdone"
          /\ io' = [io EXCEPT !.pc = "done", !.res = Ok(0)]
          /\ UNCHANGED <<stream, got>>
       \/ /\ io.pc = "wait" /\ stream # <<>> /\ peer # "disconnected"
          /\ LET n == Min(io.len, Len(stream))
             IN  /\ io' = [io EXCEPT !.pc = "done", !.res = Ok(n)]
                 /\ stream' = SubSeq(stream, n + 1, Len(stream))
                 /\ got' = got \o Returned(SubSeq(stream, 1, n), Ok(n))
       \/ /\ io.pc = "wait" /\ stream = <<>> /\ peer # "open"
          /\ io' = [io EXCEPT !.pc = "done", !.res = Err("Windows"),
                              !.eof = (peer = "closed" /\ io.len > 0)]
          /\ UNCHANGED <<stream, got>>
    /\ UNCHANGED <<peer, sent, wrote, taken>>
    /\ UNCHANGED lvars
    /\ UNCHANGED dvars

\* PipeConnection::write up to the wait.
WriteFile ==
    /\ backend = "comp" /\ io.op = "write" /\ io.pc = "try"
    /\ \E o \in WriteFileOutcomes(io.len) :
         LET r == AfterOverlapped(o, "failed to write to pipe")
         IN  /\ io' = [io EXCEPT !.att = Append(@, Res("sys", o.result)),
                                 !.pc = IF r = NoResult
                                        THEN (IF o.result > 0 THEN "waitdone" ELSE "wait")
                                        ELSE "done",
                                 !.res = r]
             /\ taken' = taken + (IF o.result > 0 THEN o.bytes ELSE 0)
             /\ wrote' = wrote + Reported(r)
    /\ UNCHANGED <<stream, peer, sent, got>>
    /\ UNCHANGED lvars
    /\ UNCHANGED dvars

\* GetOverlappedResult(.., WAIT_FOR_EVENT) of a write.
WriteWait ==
    /\ backend = "comp" /\ io.op = "write" /\ io.pc \in {"wait", "waitdone"}
    /\ \/ /\ io.pc = "waitdone"
          /\ io' = [io EXCEPT !.pc = "done", !.res = Ok(0)]
          /\ UNCHANGED <<wrote, taken>>
       \/ /\ io.pc = "wait" /\ peer = "open"
          /\ io' = [io EXCEPT !.pc = "done", !.res = Ok(io.len)]
          /\ taken' = taken + io.len
          /\ wrote' = wrote + Reported(Ok(io.len))
       \/ /\ io.pc = "wait" /\ peer # "open"
          /\ io' = [io EXCEPT !.pc = "done", !.res = Err("Windows")]
          /\ UNCHANGED <<wrote, taken>>
    /\ UNCHANGED <<stream, peer, sent, got>>
    /\ UNCHANGED lvars
    /\ UNCHANGED dvars

\* PipeConnection::shutdown: DisconnectNamedPipe, zero turned into Err.  The
\* server end is disconnected and unread data is discarded.
ConnShutdown ==
    /\ backend = "comp" /\ io.pc \in {"idle", "done"}
    /\ IF peer = "disconnected" \/ ~HandleOpen
       THEN /\ io' = [NoIo EXCEPT !.op = "shutdown", !.pc = "done", !.res = Err("Windows")]
            /\ UNCHANGED <<peer, stream>>
       ELSE /\ io' = [NoIo EXCEPT !.op = "shutdown", !.pc = "done", !.res = Ok(0)]
            /\ peer' = "disconnected"
            /\ stream' = <<>>
    /\ UNCHANGED <<sent, got, wrote, taken>>
    /\ UNCHANGED lvars
    /\ UNCHANGED dvars

\* The worker calls close() on the Connection, between two read()/write() calls.
IOClose == io.pc \in {"idle", "done"} /\ ConnClose(1)

IONext ==
    \/ ClientWrite
    \/ ClientClose
    \/ ReadCall
    \/ WriteCall
    \/ RecvAttempt
    \/ SendAttempt
    \/ ReadFile
    \/ ReadWait
    \/ WriteFile
    \/ WriteWait
    \/ ConnShutdown
    \/ IOClose

IOSpec == IOInit /\ [][IONext]_vars

\* ====================================== a running server and its clients
\* The example server of the test: one thread loops on accept() and each
\* Connection goes to a worker that reads and writes on it; QuitFlag stays
\* false and close() is not called.  The system calls do not fail for good:
\* poll reports readiness, accept4 and CreateNamedPipeW return a new number,
\* the overlapped connect reports ERROR_IO_PENDING or ERROR_PIPE_CONNECTED and
\* completes, recv / send fail only with EINTR or EAGAIN, ReadFile / WriteFile
\* succeed at once or are pending.
Accept4Ok == Accept4 /\ h'.took
NewInstanceOk == NewInstance /\ pc' = "connect"
ConnectPipeOk == ConnectPipe /\ h'.co \in {"io_pending", "pipe_connected"}
ConnWaitOk == ConnWait /\ h'.waitOk

\* The last system call of the read()/write() in progress was no hard failure.
LastAttemptOk(i) ==
    LET a == i.att[Len(i.att)]
    IN  IF backend = "poll" THEN a.kind = "Ok" \/ a.v \in EnvTransient
        ELSE a.v = 1 \/ i.pc = "wait"

RecvOk == RecvAttempt /\ LastAttemptOk(io')
SendOk == SendAttempt /\ LastAttemptOk(io')
ReadFileOk == ReadFile /\ LastAttemptOk(io')
WriteFileOk == WriteFile /\ LastAttemptOk(io')

\* The accept thread: its next step inside accept(), or the next call.
AcceptThread ==
    \/ AcceptEntry
    \/ PollReady
    \/ Recheck
    \/ Accept4Ok
    \/ NewInstanceOk
    \/ ConnectPipeOk
    \/ ConnWaitOk

\* The worker of the first accepted Connection inside read() or write().
WorkerStep ==
    /\ Len(conns) >= 1
    /\ \/ RecvOk
       \/ SendOk
       \/ ReadFileOk
       \/ ReadWait
       \/ WriteFileOk
       \/ WriteWait

\* The worker calls read() or write(); its client writes.
Exchange ==
    /\ Len(conns) >= 1
    /\ \/ ClientWrite
       \/ ReadCall
       \/ WriteCall

ServeNext ==
    \/ ClientConnect
    \/ AcceptThread
    \/ Exchange
    \/ WorkerStep

\* Both threads keep running: the accept loop goes on and a system call that
\* can return does.
ServeSpec ==
    /\ Init /\ [][ServeNext]_vars
    /\ WF_vars(AcceptThread)
    /\ WF_vars(WorkerStep)

\* ================================== read() and write() in flight together
\* One Connection of the completion backend, its reader thread inside read()
\* and its writer thread inside write() at the same time.

\* The handle table PipeConnection::new(h) finds: the connected instance at
\* slot 1, `free` slots left, the others held by other objects of the process.
TableWith(free) ==
    [s \in Slots |-> IF s = 1 THEN "pipe" ELSE IF s <= 1 + free THEN "free" ELSE "event"]

\* The Connection as PipeConnection::new(1) builds it.  CreateEventW(null, 0,
\* 1, null): an auto-reset event created signaled.  The pipe handle is
\* signaled when the connect completed as an overlapped operation.
DuplexInit ==
    /\ backend = "comp"
    /\ addrOk = TRUE
    /\ listener = "built"
    /\ inst = NoInst
    /\ owner = [s \in Slots |-> IF s = 1 THEN 1 ELSE 0]
    /\ quit = FALSE
    /\ \E free \in 0..2 : \E ev \in NewEvents(TableWith(free)) :
         /\ fds = ev[3]
         /\ conns = <<Conn(1, ev[1], ev[2], 1)>>
         /\ \E p \in SUBSET {1} : sig = p \cup ({ev[1], ev[2]} \ {NoHandle})
    /\ mon = <<NoHandle, NoHandle>>
    /\ first_instance = FALSE
    /\ backlog = 0
    /\ connects = 1
    /\ pc = "done"
    /\ result = OkSome(1)
    /\ np = 1
    /\ npClient = TRUE
    /\ lcloses = 0
    /\ panicked = {}
    /\ h = NoHist
    /\ qpc = "none"
    /\ okAfterQuit = 0
    /\ io = NoIo
    /\ stream = <<>>
    /\ peer = "open"
    /\ sent = 0
    /\ got = <<>>
    /\ wrote = 0
    /\ taken = 0
    /\ rd = NoCall
    /\ wr = NoCall
    /\ ops = NoOps

\* The object an overlapped operation signals when it completes and
\* GetOverlappedResult waits on: OVERLAPPED.hEvent (new_with_event), or the
\* file handle when hEvent is NULL.
WaitObject(c, ev) == IF ev # NoHandle THEN ev ELSE c.h

\* ReadFile / WriteFile with an OVERLAPPED: completed at once with bytes
\* transferred, pending, or failed.
OverlappedOutcomes == {"done", "pending", "error"}

\* read() / write() up to the wait, for outcome o of the system call on wait
\* object obj: the call's state, the operation's and the signaled handles.
\* The system resets the object when the operation begins and sets it when the
\* operation completes.
Started(o, op, obj, what) ==
    CASE o = "done" ->
           [call |-> [pc |-> "done", res |-> Ok(1), waited |-> FALSE, own |-> TRUE],
            op |-> op, sig |-> sig \cup {obj}]
      [] o = "pending" ->
           [call |-> [pc |-> "wait", res |-> NoResult, waited |-> TRUE, own |-> FALSE],
            op |-> "pending", sig |-> sig \ {obj}]
      [] OTHER ->
           [call |-> [pc |-> "done", res |-> Err(what), waited |-> FALSE, own |-> FALSE],
            op |-> op, sig |-> sig]

\* GetOverlappedResult(named_pipe, ol, .., WAIT_FOR_EVENT) and the match on its
\* result (0 -> Err(Windows), else Ok(bytes_transfered)).  The call returns
\* when the operation has completed, or when the object it waits on is
\* signaled; a wait on an auto-reset event resets it.  Returning from the wait
\* with the operation still pending, it reports zero or a count that is not
\* the operation's.
Waited(op, obj, ev) ==
    IF op = "complete"
    THEN {[call |-> [pc |-> "done", res |-> r, waited |-> TRUE, own |-> TRUE],
           op |-> "none", sig |-> g] :
              r \in {Ok(1), Err("Windows")}, g \in {sig, sig \ {ev}}}
    ELSE IF obj \in sig
    THEN {[call |-> [pc |-> "done", res |-> r, waited |-> TRUE, own |-> FALSE],
           op |-> op, sig |-> sig \ {ev}] :
              r \in {Ok(0), Err("Windows")}}
    ELSE {}

\* PipeConnection::read up to the wait, on the reader thread.
ReadStart ==
    /\ rd.pc \in {"idle", "done"}
    /\ \E o \in OverlappedOutcomes :
         LET n == Started(o, ops.read, WaitObject(conns[1], conns[1].re),
                          "failed to read from pipe")
         IN  /\ rd' = n.call
             /\ ops' = [ops EXCEPT !.read = n.op]
             /\ sig' = n.sig
    /\ UNCHANGED wr
    /\ UNCHANGED <<lvars, iovars>>

\* The system completes the pending read.
ReadComplete ==
    /\ ops.read = "pending"
    /\ ops' = [ops EXCEPT !.read = "complete"]
    /\ sig' = sig \cup {WaitObject(conns[1], conns[1].re)}
    /\ UNCHANGED <<rd, wr>>
    /\ UNCHANGED <<lvars, iovars>>

\* The reader's GetOverlappedResult returns.
ReadResult ==
    /\ rd.pc = "wait"
    /\ \E n \in Waited(ops.read, WaitObject(conns[1], conns[1].re), conns[1].re) :
         /\ rd' = n.call
         /\ ops' = [ops EXCEPT !.read = n.op]
         /\ sig' = n.sig
    /\ UNCHANGED wr
    /\ UNCHANGED <<lvars, iovars>>

\* PipeConnection::write up to the wait, on the writer thread.
WriteStart ==
    /\ wr.pc \in {"idle", "done"}
    /\ \E o \in OverlappedOutcomes :
         LET n == Started(o, ops.write, WaitObject(conns[1], conns[1].we),
                          "failed to write to pipe")
         IN  /\ wr' = n.call
             /\ ops' = [ops EXCEPT !.write = n.op]
             /\ sig' = n.sig
    /\ UNCHANGED rd
    /\ UNCHANGED <<lvars, iovars>>

\* The system completes the pending write.
WriteComplete ==
    /\ ops.write = "pending"
    /\ ops' = [ops EXCEPT !.write = "complete"]
    /\ sig' = sig \cup {WaitObject(conns[1], conns[1].we)}
    /\ UNCHANGED <<rd, wr>>
    /\ UNCHANGED <<lvars, iovars>>

\* The writer's GetOverlappedResult returns.
WriteResult ==
    /\ wr.pc = "wait"
    /\ \E n \in Waited(ops.write, WaitObject(conns[1], conns[1].we), conns[1].we) :
         /\ wr' = n.call
         /\ ops' = [ops EXCEPT !.write = n.op]
         /\ sig' = n.sig
    /\ UNCHANGED rd
    /\ UNCHANGED <<lvars, iovars>>

DuplexNext ==
    \/ ReadStart
    \/ ReadComplete
    \/ ReadResult
    \/ WriteStart
    \/ WriteComplete
    \/ WriteResult

DuplexSpec == DuplexInit /\ [][DuplexNext]_vars

\* ================================================================== claims

\* C1: on both backends an accept() call that finds QuitFlag raised at entry
\* returns the shutdown error at once: it does not wait, accepts no queued
\* peer and creates no pipe instance.
AcceptAtQuitReturnsShutdown ==
    h.entryQuit =>
        /\ pc = "done"
        /\ result = ErrShutdown
        /\ ~h.polled /\ ~h.waited /\ ~h.created /\ ~h.took

\* A call entered with QuitFlag raised and a client queued has returned.
AcceptAtQuitWitness ==
    /\ backend = "poll" /\ h.entryQuit /\ pc = "done" /\ backlog > 0

\* The same on the completion backend, after an earlier call created an instance.
AcceptAtQuitWitnessComp ==
    /\ backend = "comp" /\ h.entryQuit /\ pc = "done" /\ \E s \in Slots : fds[s] = "pipe"

\* A wait of the current accept() call failed (poll returned -1).
WaitFailed == h.polled /\ h.ret = -1

\* Shutdown is complete (QuitFlag raised, Listener close() called) and the
\* accept thread is parked in poll() with no client queued.
ParkedAtShutdown ==
    /\ backend = "poll" /\ pc = "poll" /\ quit /\ lcloses >= 1 /\ backlog = 0

ReturnedNone == pc = "done" /\ result = OkNone
ReturnedShutdown == pc = "done" /\ result = ErrShutdown

\* C2: polling backend: once shutdown has raised QuitFlag and Listener close()
\* has released the wake channel's write side, an accept() parked in poll()
\* with no client queued returns, with Ok(None) unless its poll() itself
\* failed; after Ok(None) the caller's next accept() returns the shutdown
\* error; the accept loop does not stay blocked: it reaches the shutdown error.
ShutdownWakesParkedAccept ==
    /\ ParkedAtShutdown ~> (ReturnedNone \/ (pc = "done" /\ WaitFailed))
    /\ (ReturnedNone /\ quit) ~> ReturnedShutdown
    /\ ParkedAtShutdown ~> ReturnedShutdown

\* The parked call returned Ok(None) on the hung-up wake channel alone.
ShutdownWakeWitness ==
    /\ backend = "poll" /\ ReturnedNone /\ ~h.entryQuit /\ quit /\ lcloses >= 1
    /\ h.ret = 1 /\ h.rev0 # 0 /\ h.rev1 = 0 /\ connects = 0

\* C3: polling backend: when QuitFlag is raised by the time of the re-check
\* that follows a wait which reported the listening socket alone, accept()
\* returns the shutdown error and accepts no peer.
RecheckBlocksAccept ==
    (backend = "poll" /\ h.rechecked /\ h.quitAtRecheck) =>
        /\ pc = "done"
        /\ result = ErrShutdown
        /\ ~h.took

\* QuitFlag was raised while the call was parked; the wait then reported the
\* listening socket and not the wake channel; the call has returned.
RecheckWitness ==
    /\ backend = "poll" /\ pc = "done" /\ h.rechecked /\ h.quitAtRecheck
    /\ ~h.entryQuit /\ qpc = "wait" /\ h.rev0 = 0 /\ h.rev1 # 0 /\ backlog > 0

\* C4 (as claimed): completion backend: QuitFlag raised while accept() was
\* blocked in the connect wait makes the call return the shutdown error when
\* the wait completes.
ConnectWaitRechecksQuit ==
    (backend = "comp" /\ pc = "done" /\ h.waitOk /\ qpc = "wait" /\ quit)
        => result = ErrShutdown

\* C5: completion backend: a call entered after QuitFlag was raised returns no
\* Connection, so at most one accept() returns a Connection with QuitFlag
\* raised: the one in progress when it was raised.
AtMostOneAcceptAfterQuit ==
    backend = "comp" =>
        /\ okAfterQuit <= 1
        /\ (quit /\ pc = "done" /\ result.kind = "OkSome") => ~h.entryQuit
        /\ (pc = "connwait" => ~h.entryQuit)

\* QuitFlag was raised during a pending connect wait, which was not aborted:
\* it completed later and accept() returned the Connection.
ParkedAcceptCompletesWitness ==
    /\ backend = "comp" /\ okAfterQuit = 1 /\ pc = "done" /\ h.waitOk
    /\ qpc = "wait" /\ result.kind = "OkSome"

\* C6: polling backend: a wait that reports the wake channel returns Ok(None)
\* and accepts nothing, whether or not a client is queued; a wait that reports
\* nothing returns Ok(None); a Connection is returned only after a wait that
\* reported the listening socket and not the wake channel.
WakeFiredGivesNone ==
    (backend = "poll" /\ h.polled) =>
        /\ (h.ret >= 1 /\ h.rev0 # 0) => (pc = "done" /\ result = OkNone /\ ~h.took)
        /\ (h.ret >= 0 /\ h.rev0 = 0 /\ h.rev1 = 0) => (pc = "done" /\ result = OkNone)
        /\ (result.kind = "OkSome" \/ h.took) => (h.ret >= 1 /\ h.rev0 = 0 /\ h.rev1 # 0)

\* Both descriptors were reported and the call returned Ok(None), the client
\* still queued.
WakeFiredWitness ==
    /\ backend = "poll" /\ pc = "done" /\ h.polled /\ h.ret = 2
    /\ h.rev0 # 0 /\ h.rev1 # 0 /\ result = OkNone /\ backlog > 0

\* A wait reported nothing and the call returned Ok(None).
SpuriousWakeWitness ==
    /\ backend = "poll" /\ pc = "done" /\ h.polled /\ h.ret = 0 /\ result = OkNone

\* C9 (as claimed): no operation panics.
NoOperationPanics == panicked = {}

\* C10 (as claimed): a second close() on a Listener or on a Connection changes
\* no state: it releases nothing and does not panic.
SecondCloseChangesNothing ==
    [][((lcloses >= 1 /\ lcloses' = lcloses + 1)
        \/ (\E i \in 1..Len(conns) :
              conns[i].closes >= 1 /\ conns'[i].closes = conns[i].closes + 1))
       => (fds' = fds /\ panicked' = panicked)]_vars

\* The two errnos read() and write() are to absorb.
Transient == {"EINTR", "EAGAIN"}
IsTransient(o) == o.kind = "Err" /\ o.v \in Transient

\* C7: polling backend: inside read() and write() every system call but the
\* last returned EINTR or EAGAIN, the last one did not, and its outcome (a byte
\* count or another errno) is what the call returns: EINTR and EAGAIN never
\* reach the caller, no other outcome is retried.
RetryAbsorbsTransient ==
    (backend = "poll" /\ io.op \in {"read", "write"}) =>
        /\ \A k \in 1..(Len(io.att) - 1) : IsTransient(io.att[k])
        /\ io.pc = "try" => \A k \in 1..Len(io.att) : IsTransient(io.att[k])
        /\ io.pc = "done" =>
             /\ Len(io.att) >= 1
             /\ io.res = io.att[Len(io.att)]
             /\ ~IsTransient(io.res)

\* A read() met EAGAIN, then EINTR, then returned the two bytes recv gave it.
RetryWitness ==
    /\ backend = "poll" /\ io.op = "read" /\ io.pc = "done" /\ Len(io.att) = 3
    /\ io.att[1] = Err("EAGAIN") /\ io.att[2] = Err("EINTR") /\ io.res = Ok(2)

\* A write() met EAGAIN and then returned another errno unretried.
RetryWriteWitness ==
    /\ backend = "poll" /\ io.op = "write" /\ io.pc = "done" /\ Len(io.att) = 2
    /\ io.att[1] = Err("EAGAIN") /\ io.res = Err("EPIPE")

\* C8 (as claimed): after the peer wrote N bytes and closed, and the N bytes
\* were read, the next read() returns a distinguished PeerClosed outcome.
PeerClosedIsDistinguished ==
    (io.op = "read" /\ io.pc = "done" /\ io.eof /\ sent > 0 /\ Len(got) = sent)
        => io.res.kind = "PeerClosed"

\* C11 (as claimed): Listener::new on an address where no endpoint can be
\* created (nonexistent directory, malformed pipe name) returns an error and no
\* Listener.
InvalidAddressGivesNoListener == ~addrOk => listener = "failed"

\* C19 (as claimed): completion backend: over any sequence of accept() calls,
\* the first pipe instance that CreateNamedPipeW creates for the address was
\* requested with FILE_FLAG_FIRST_PIPE_INSTANCE, and no later one was.
FirstInstanceIsExclusive == inst.made => (inst.firstExcl /\ ~inst.laterExcl)

\* The connect of the current accept() call succeeded: ConnectNamedPipe
\* returned nonzero or reported the client already connected, or the pending
\* connect completed with success.
ConnectSucceeded == h.co \in {"nonzero", "pipe_connected"} \/ h.waitOk

\* C18 (as claimed): completion backend: an accept() call that issued the
\* connect returns a Connection exactly when the connect succeeded, and an
\* error only when it failed.
ConnectSuccessGivesConnection ==
    (backend = "comp" /\ pc = "done" /\ h.co # "") =>
        (result.kind = "OkSome" <=> ConnectSucceeded)

\* A live Listener or Connection, or the accept() call in progress, holds slot s.
Owned(s) ==
    \/ backend = "poll" /\ listener = "built"
          /\ (s = 1 \/ s = mon[1] \/ (s = mon[2] /\ lcloses = 0))
    \/ \E i \in 1..Len(conns) :
          conns[i].closes = 0 /\ s \in {conns[i].h, conns[i].re, conns[i].we}
    \/ pc \in {"connect", "connwait"} /\ s = np

\* C20 (as claimed): every descriptor or handle this layer created is either
\* held by a live Listener or Connection (or by the accept() call still
\* running) or has been released.
NoHandleLeaked == \A s \in Slots : fds[s] # "free" => Owned(s)

\* C16: polling backend: a poll() that fails inside accept() makes the call
\* return that error at once: no second wait, nothing accepted, the descriptor
\* table, the wake channel, the queued clients and the Connections unchanged.
InterruptedWaitPropagates ==
    [][(backend = "poll" /\ pc = "poll" /\ h'.polled /\ h'.ret = -1) =>
         /\ pc' = "done"
         /\ result' = Res("Err", h'.err)
         /\ ~h'.took
         /\ fds' = fds /\ mon' = mon /\ owner' = owner
         /\ backlog' = backlog /\ conns' = conns /\ quit' = quit]_vars

\* The call that followed an accept() interrupted in poll() (EINTR) returned a
\* Connection.
AcceptAfterInterruptWitness ==
    /\ backend = "poll" /\ pc = "done" /\ h.afterIntr /\ h.took
    /\ result.kind = "OkSome"

\* No close() has been called on an object that was already closed.
NoDoubleClose == lcloses <= 1 /\ \A i \in 1..Len(conns) : conns[i].closes <= 1

Prefix(n) == [k \in 1..n |-> k]

\* C12: the bytes read() calls have returned, in order, are a prefix of the
\* bytes the peer wrote, and with the bytes still queued they make up exactly
\* what was written (nothing lost, repeated or reordered across calls); a
\* write() reports exactly the bytes the system took for the peer.  An empty
\* payload leaves both sequences empty.
ByteStreamPreserved ==
    /\ got = Prefix(Len(got))
    /\ Len(got) <= sent
    /\ peer # "disconnected" => got \o stream = Prefix(sent)
    /\ (stream = <<>> /\ peer # "disconnected") => got = Prefix(sent)
    /\ wrote = taken

\* The peer's bytes were read by two read() calls, one byte each, and all of
\* them have arrived.
ByteStreamWitness ==
    /\ sent = MaxBytes /\ got = Prefix(MaxBytes) /\ stream = <<>>
    /\ io.op = "read" /\ io.pc = "done" /\ io.res = Ok(1) /\ ~Closed

\* Every byte a write() handed over was reported to its caller.
ByteStreamWriteWitness ==
    /\ wrote = MaxBytes /\ io.op = "write" /\ io.pc = "done" /\ io.res = Ok(1)

\* C15 (as claimed): a read() or write() called after close() succeeded on the
\* Connection makes no system call on the released handle and returns a
\* ProtocolMisuse error.
ClosedConnectionRefusesIo ==
    (io.op \in {"read", "write"} /\ io.afterClose) =>
        /\ io.att = <<>>
        /\ io.pc = "done" => io.res = Err("ProtocolMisuse")

\* C17 (as claimed): completion backend: a read() or write() whose ReadFile /
\* WriteFile succeeded at once returns Ok: the count stored at once when it is
\* positive, else the count GetOverlappedResult gives; never an error.
OverlappedSuccessIsOk ==
    (backend = "comp" /\ io.op \in {"read", "write"} /\ io.pc = "done"
       /\ io.att # <<>> /\ io.att[1] = Res("sys", 1))
        => io.res.kind = "Ok"

\* Client k's connect succeeded: it is queued on, or has been taken from, the
\* listening socket; it has opened a pipe instance.
Connected(k) ==
    IF backend = "poll" THEN listener = "built" /\ connects >= k
    ELSE \E s \in Slots : owner[s] = k

\* accept() has returned Ok(Some(connection)) for client k.
Accepted(k) == \E i \in 1..Len(conns) : conns[i].client = k

ReadInProgress == io.op = "read" /\ io.pc # "done" /\ io.len > 0 /\ stream # <<>>
WriteInProgress == io.op = "write" /\ io.pc # "done" /\ io.len > 0
ReturnedBytes(op) == io.op = op /\ io.pc = "done" /\ io.res.kind = "Ok" /\ io.res.v > 0

ClosedListenerAcceptsNothing ==
    (backend = "poll" /\ h.afterClose) =>
        /\ pc \in {"poll", "done"}
        /\ ~h.took
        /\ (h.polled /\ h.ret >= 1) => h.rev0 # 0
        /\ pc = "done" => result.kind \in {"OkNone", "Err"}

\* A call made after the close, with QuitFlag clear and a client queued, has
\* returned Ok(None).
ClosedListenerWitness ==
    /\ backend = "poll" /\ h.afterClose /\ lcloses >= 1
    /\ ~quit /\ backlog > 0
    /\ pc = "done" /\ h.polled /\ h.rev1 = POLLIN
    /\ result = OkNone

\* C21: with a read and a write in flight together on one Connection of the
\* completion backend, a read() that blocked returns only once its own read
\* has completed and a write() that blocked only once its own write has: no
\* call returns from its wait on the other operation's completion.
OwnCompletionOnly ==
    /\ (rd.pc = "done" /\ rd.waited) => rd.own
    /\ (wr.pc = "done" /\ wr.waited) => wr.own

\* The same for the Connections that hold an event of their own for at least
\* one direction: then the two operations never wait on the same object.
DedicatedEventsSuffice ==
    (conns[1].re # NoHandle \/ conns[1].we # NoHandle) => OwnCompletionOnly

====
